---- MODULE Spec2Model ----
(***************************************************************************)
(* Model of pkg/services/pull_request/bitbucket_server.go: the Bitbucket   *)
(* Server pull request lister (newBitbucketService, List, isCommitGreen,   *)
(* getBuildStatuses, getPullRequestCommits and the build-status policy).   *)
(*                                                                         *)
(* One List call is a sequential procedure that blocks on every REST       *)
(* request; the model has one action per request and one per piece of      *)
(* straight-line code between two requests.  The server is static during   *)
(* a call: its pages are chosen the first time they are requested and a    *)
(* repeated request (same resource, same start) is served the same page.   *)
(* Every request and its response is recorded in the history variable      *)
(* `requests`, every green check in `checks`.  SpecBuildsChange is the     *)
(* same call against a server whose builds go on during the call: every    *)
(* build-status request is answered anew.                                  *)
(***************************************************************************)
EXTENDS Integers, Sequences, FiniteSets, TLC

VARIABLES
    pc,             \* position of the caller / of List
    args,           \* arguments of newBitbucketService
    svc,            \* the BitbucketService (fields branchMatch, successfulBuilds, findLatestSuccessful)
    newErr,         \* error returned by newBitbucketService
    paged,          \* List: paged["start"] (NoStart when the key is absent)
    pullRequests,   \* List: accumulated result
    response,       \* List: the last pull-request page received
    pulls,          \* List: pull requests of the current page
    idx,            \* List: position of the range loop over pulls
    headSHA,        \* List: headSHA of the current pull request
    commits,        \* List: commits returned by getPullRequestCommits
    cidx,           \* List: position of the range loop over commits
    foundGreenCommit, \* List: foundGreenCommit
    caller,         \* which call of isCommitGreen is running ("head" or "search")
    bsCommit,       \* getBuildStatuses: commitId
    bsPaged,        \* getBuildStatuses: paged["start"]
    bsRes,          \* getBuildStatuses: res
    cPaged,         \* getPullRequestCommits: paged["start"]
    cRes,           \* getPullRequestCommits: res
    ret,            \* what List returned: [nil, v, err]
    requests,       \* history: every request issued, with its response
    checks,         \* history: every completed isCommitGreen call
    outcomes,       \* history: what List decided for each pull request it finished
    polIn,          \* build-status policy on its own: the inputs
    polOut          \* build-status policy on its own: the results

listVars == <<paged, pullRequests, response, pulls, idx, headSHA, commits, cidx,
              foundGreenCommit, caller, bsCommit, bsPaged, bsRes, cPaged, cRes>>
polVars == <<polIn, polOut>>
vars == <<pc, args, svc, newErr, listVars, ret, requests, checks, outcomes, polVars>>

----------------------------------------------------------------------------
(* Bounds of the model *)

MaxPullPages == 2        \* pages of the pull-request listing
MaxPullsPerPage == 1     \* pull requests on one page
MaxStatusPages == 2      \* pages of one commit's build statuses
MaxStatusesPerPage == 1  \* build statuses on one page
MaxCommitPages == 2      \* pages of one pull request's commit list
MaxCommitsPerPage == 2   \* commits on one page
MaxRequests == 5         \* requests issued during one List call
MaxPolStatuses == 3      \* build statuses given to the policy on its own
MaxPolPatterns == 2      \* patterns given to the policy on its own

(* Program constants *)

SUCCESSFUL == "SUCCESSFUL"
Limit == 100
NoStart == -1

SeqsUpTo(S, n) == UNION {[1..k -> S] : k \in 0..n}

----------------------------------------------------------------------------
(* regexp: patterns are sequences of characters.  The subset modelled is a  *)
(* literal, optionally anchored by a leading ^ and a trailing $; a [ opens  *)
(* a character class that is never closed, which does not compile.          *)

Contains(s, c) == \E i \in 1..Len(s) : s[i] = c

(* Mutant: every pattern compiles *)
RegexpCompileLenient(src) ==
    LET anchorStart == Len(src) > 0 /\ src[1] = "^"
        rest1 == IF anchorStart THEN SubSeq(src, 2, Len(src)) ELSE src
        anchorEnd == Len(rest1) > 0 /\ rest1[Len(rest1)] = "$"
        lit == IF anchorEnd THEN SubSeq(rest1, 1, Len(rest1) - 1) ELSE rest1
    IN  [err |-> FALSE,
         anchorStart |-> anchorStart, anchorEnd |-> anchorEnd, lit |-> lit]

RegexpCompile(src) ==
    LET anchorStart == Len(src) > 0 /\ src[1] = "^"
        rest1 == IF anchorStart THEN SubSeq(src, 2, Len(src)) ELSE src
        anchorEnd == Len(rest1) > 0 /\ rest1[Len(rest1)] = "$"
        lit == IF anchorEnd THEN SubSeq(rest1, 1, Len(rest1) - 1) ELSE rest1
    IN  [err |-> Contains(lit, "["),
         anchorStart |-> anchorStart, anchorEnd |-> anchorEnd, lit |-> lit]

MatchAt(re, s, i) ==
    /\ i + Len(re.lit) - 1 <= Len(s)
    /\ SubSeq(s, i, i + Len(re.lit) - 1) = re.lit
    /\ re.anchorStart => i = 1
    /\ re.anchorEnd => i + Len(re.lit) - 1 = Len(s)

MatchString(re, s) == \E i \in 1..(Len(s) + 1) : MatchAt(re, s, i)

----------------------------------------------------------------------------
(* Build-status policy: the three pure functions, loop by loop *)

RECURSIVE AllBuildsFrom(_, _)
AllBuildsFrom(buildStatuses, i) ==
    IF i > Len(buildStatuses) THEN TRUE
    ELSE IF buildStatuses[i].State # SUCCESSFUL THEN FALSE
    ELSE AllBuildsFrom(buildStatuses, i + 1)

(* Mutant: a commit without builds is not green *)
verifyAllBuildsNonEmpty(buildStatuses) ==
    Len(buildStatuses) > 0 /\ AllBuildsFrom(buildStatuses, 1)

verifyAllBuildsSuccessful(buildStatuses) == AllBuildsFrom(buildStatuses, 1)

RECURSIVE MatchingBuildFrom(_, _, _)
MatchingBuildFrom(buildName, buildStatuses, i) ==
    IF i > Len(buildStatuses) THEN FALSE
    ELSE IF MatchString(buildName, buildStatuses[i].Name)
            /\ buildStatuses[i].State = SUCCESSFUL THEN TRUE
    ELSE MatchingBuildFrom(buildName, buildStatuses, i + 1)

(* Mutant: a build of that name is enough, whatever its state *)
isMatchingBuildAnyState(buildName, buildStatuses) ==
    \E i \in 1..Len(buildStatuses) : MatchString(buildName, buildStatuses[i].Name)

isMatchingBuildSuccessful(buildName, buildStatuses) ==
    MatchingBuildFrom(buildName, buildStatuses, 1)

RECURSIVE ListedBuildsFrom(_, _, _)
ListedBuildsFrom(successfulBuilds, buildStatuses, i) ==
    IF i > Len(successfulBuilds) THEN TRUE
    ELSE IF ~isMatchingBuildSuccessful(successfulBuilds[i], buildStatuses) THEN FALSE
    ELSE ListedBuildsFrom(successfulBuilds, buildStatuses, i + 1)

verifyListedBuildsSuccessful(successfulBuilds, buildStatuses) ==
    ListedBuildsFrom(successfulBuilds, buildStatuses, 1)

(* Mutant: every build must be green, whatever the patterns *)
isCommitGreenAll(successfulBuilds, buildStatuses) ==
    verifyAllBuildsSuccessful(buildStatuses)

(* isCommitGreen, after getBuildStatuses has returned buildStatuses *)
isCommitGreen(successfulBuilds, buildStatuses) ==
    IF Len(successfulBuilds) # 0
    THEN verifyListedBuildsSuccessful(successfulBuilds, buildStatuses)
    ELSE verifyAllBuildsSuccessful(buildStatuses)

----------------------------------------------------------------------------
(* The server: what a page of each listing may hold *)

PullIds == {101, 102}
CommitIds == {"c1", "c2"}
BranchNames == {<<"a", "b">>, <<"b">>}
BuildNames == {<<"a", "b">>, <<"b">>}
BuildStates == {SUCCESSFUL, "FAILED"}

(* fromRef.id is a ref name on a Bitbucket server; the second pull request   *)
(* carries a commit id there, so that the comparison of List with a commit  *)
(* id can come out either way.                                               *)
RefIdOf(id) == IF id = 101 THEN "refs/heads/f" ELSE "c1"

Pulls ==
    {[ID |-> i, FromRef |-> [ID |-> RefIdOf(i), DisplayID |-> d, LatestCommit |-> c]] :
        i \in PullIds, d \in BranchNames, c \in CommitIds}

Statuses == {[Name |-> n, State |-> s] : n \in BuildNames, s \in BuildStates}

Commits == {[ID |-> c] : c \in CommitIds}

Failures ==
    {[err |-> e, values |-> <<>>, isLastPage |-> TRUE, nextPageStart |-> NoStart] :
        e \in {"fetch", "parse"}}

PageNo(start) == IF start = NoStart THEN 0 ELSE start \div Limit

NextStart(start) == (PageNo(start) + 1) * Limit

(* The pages a listing of at most maxPages pages may serve at `start` *)
Pages(items, perPage, maxPages, start) ==
    {[err |-> "", values |-> v, isLastPage |-> l,
      nextPageStart |-> IF l THEN NoStart ELSE NextStart(start)] :
        v \in SeqsUpTo(items, perPage),
        l \in IF PageNo(start) + 1 >= maxPages THEN {TRUE} ELSE BOOLEAN}

(* The pages already served for this request during the call *)
Served(kind, commit, pull, start) ==
    {requests[i].resp : i \in {j \in 1..Len(requests) :
        /\ requests[j].kind = kind
        /\ requests[j].commit = commit
        /\ requests[j].pull = pull
        /\ requests[j].start = start
        /\ requests[j].resp.err = ""}}

(* The responses to a request: a failure, or the page of the static server *)
Responses(kind, commit, pull, start, fresh) ==
    Failures \cup (IF Served(kind, commit, pull, start) # {}
                   THEN Served(kind, commit, pull, start) ELSE fresh)

(* The history record of one request.  page and at say during which          *)
(* iteration of the loops of List it was issued (at = 0: by the page loop    *)
(* itself), loop during which iteration of the range loop over commits       *)
(* (0: outside that loop).                                                   *)
Request(kind, commit, pull, start, resp) ==
    [kind |-> kind, commit |-> commit, pull |-> pull, start |-> start, resp |-> resp,
     page |-> PageNo(paged),
     at |-> IF kind = "pulls" THEN 0 ELSE idx,
     loop |-> IF kind = "builds" /\ caller = "search" THEN cidx ELSE 0]

(* bitbucketv1.HasNextPage *)
HasNextPage(resp) ==
    [hasNextPage |-> ~resp.isLastPage,
     nextPageStart |-> IF ~resp.isLastPage THEN resp.nextPageStart ELSE 0]

----------------------------------------------------------------------------
(* Construction *)

BranchMatchArgs == {<<>>, << <<"a">> >>, << <<"^", "b">> >>, << <<"[">> >>}

SuccessfulBuildsArgs ==
    {[nil |-> TRUE, v |-> <<>>]} \cup
    {[nil |-> FALSE, v |-> l] :
        l \in {<<>>, << <<"a">> >>, << <<"a">>, <<"b">> >>, << <<"a">>, <<"[">> >>}}

Args ==
    [branchMatch : BranchMatchArgs, successfulBuilds : SuccessfulBuildsArgs,
     findLatestSuccessful : BOOLEAN]

NoService ==
    [branchMatch |-> <<>>, successfulBuilds |-> [nil |-> TRUE, v |-> <<>>],
     findLatestSuccessful |-> FALSE]

NoReturn == [nil |-> TRUE, v |-> <<>>, err |-> FALSE]

CompileAll(l) == [i \in 1..Len(l) |-> RegexpCompile(l[i])]

newBitbucketService ==
    /\ pc = "new"
    /\ LET bm == CompileAll(args.branchMatch)
           sb == CompileAll(args.successfulBuilds.v)
           bad == \/ \E i \in 1..Len(bm) : bm[i].err
                  \/ \E i \in 1..Len(sb) : sb[i].err
       IN  IF bad
           THEN /\ newErr' = TRUE
                /\ pc' = "failed"
                /\ UNCHANGED svc
           ELSE /\ svc' = [branchMatch |-> bm,
                           successfulBuilds |-> [nil |-> args.successfulBuilds.nil, v |-> sb],
                           findLatestSuccessful |-> args.findLatestSuccessful]
                /\ pc' = "ready"
                /\ UNCHANGED newErr
    /\ UNCHANGED <<args, listVars, ret, requests, checks, outcomes, polVars>>

----------------------------------------------------------------------------
(* List *)

pull == pulls[idx]

(* Mutant: the entry carries the ref of the pull request, not a commit *)
PullRequestOfRef(p, sha) ==
    [Number |-> p.ID, Branch |-> p.FromRef.DisplayID, HeadSHA |-> p.FromRef.ID]

PullRequestOf(p, sha) ==
    [Number |-> p.ID, Branch |-> p.FromRef.DisplayID, HeadSHA |-> sha]

(* Mutant: the pull requests accepted so far are returned with the error *)
ReturnErrPartial ==
    /\ pc' = "done"
    /\ ret' = [nil |-> FALSE, v |-> pullRequests, err |-> TRUE]

(* return nil, err *)
ReturnErr ==
    /\ pc' = "done"
    /\ ret' = [nil |-> TRUE, v |-> <<>>, err |-> TRUE]

(* Mutant: the cursor is never sent *)
PullRequestsStartNone(p) == NoStart

(* The start value each request carries *)
PullRequestsStart(p) == p
BuildStatusesStart(p) == NoStart

(* Mutant: the commits request never carries the cursor *)
PullRequestCommitsStartNone(p) == NoStart

PullRequestCommitsStart(p) == p

ListBegin ==
    /\ pc = "ready"
    /\ paged' = NoStart
    /\ pullRequests' = <<>>
    /\ pc' = "page"
    /\ UNCHANGED <<args, svc, newErr, response, pulls, idx, headSHA, commits, cidx,
                   foundGreenCommit, caller, bsCommit, bsPaged, bsRes, cPaged, cRes,
                   ret, requests, checks, outcomes, polVars>>

GetPullRequestsPage ==
    /\ pc = "page"
    /\ Len(requests) < MaxRequests
    /\ LET start == PullRequestsStart(paged) IN
       \E resp \in Responses("pulls", "", 0, start,
                             Pages(Pulls, MaxPullsPerPage, MaxPullPages, start)) :
        /\ requests' = Append(requests, Request("pulls", "", 0, start, resp))
        /\ IF resp.err # ""
           THEN /\ ReturnErr
                /\ UNCHANGED <<response, pulls, idx>>
           ELSE /\ response' = resp
                /\ pulls' = resp.values
                /\ idx' = 1
                /\ pc' = "pulls"
                /\ UNCHANGED ret
    /\ UNCHANGED <<args, svc, newErr, paged, pullRequests, headSHA, commits, cidx,
                   foundGreenCommit, caller, bsCommit, bsPaged, bsRes, cPaged, cRes,
                   checks, outcomes, polVars>>

(* Mutant: a result without entries is returned as nil *)
NextPageNilWhenEmpty ==
    /\ pc = "pulls"
    /\ idx > Len(pulls)
    /\ IF ~HasNextPage(response).hasNextPage
       THEN /\ pc' = "done"
            /\ ret' = [nil |-> Len(pullRequests) = 0, v |-> pullRequests, err |-> FALSE]
            /\ UNCHANGED paged
       ELSE /\ paged' = HasNextPage(response).nextPageStart
            /\ pc' = "page"
            /\ UNCHANGED ret
    /\ UNCHANGED <<args, svc, newErr, pullRequests, response, pulls, idx, headSHA,
                   commits, cidx, foundGreenCommit, caller, bsCommit, bsPaged, bsRes,
                   cPaged, cRes, requests, checks, outcomes, polVars>>

(* The range loop over pulls is over: follow the cursor or return *)
NextPage ==
    /\ pc = "pulls"
    /\ idx > Len(pulls)
    /\ IF ~HasNextPage(response).hasNextPage
       THEN /\ pc' = "done"
            /\ ret' = [nil |-> FALSE, v |-> pullRequests, err |-> FALSE]
            /\ UNCHANGED paged
       ELSE /\ paged' = HasNextPage(response).nextPageStart
            /\ pc' = "page"
            /\ UNCHANGED ret
    /\ UNCHANGED <<args, svc, newErr, pullRequests, response, pulls, idx, headSHA,
                   commits, cidx, foundGreenCommit, caller, bsCommit, bsPaged, bsRes,
                   cPaged, cRes, requests, checks, outcomes, polVars>>

(* Mutant: nil is taken for a pattern set *)
BuildsConfiguredAlways == TRUE

(* b.successfulBuilds != nil *)
BuildsConfigured == ~svc.successfulBuilds.nil

(* The history record of one finished pull request: "branch" (rejected by   *)
(* the branch filter), "head" (accepted with its head commit), "red"        *)
(* (skipped, head not green), "found" (accepted with a substituted commit)  *)
(* or "none" (skipped, no green commit found)                               *)
Outcome(kind, sha) ==
    [page |-> PageNo(paged), at |-> idx, pull |-> pull, kind |-> kind, headSHA |-> sha]

(* Mutant: the branch filter lets every pull request through *)
BranchRejectedNever(p) == FALSE

(* Mutant: the pattern must equal the whole branch name *)
BranchRejectedFullMatch(p) ==
    /\ Len(svc.branchMatch) # 0
    /\ svc.branchMatch[1].lit # p.FromRef.DisplayID

BranchRejected(p) ==
    /\ Len(svc.branchMatch) # 0
    /\ ~MatchString(svc.branchMatch[1], p.FromRef.DisplayID)

(* One pull request of the page, up to its first request *)
NextPull ==
    /\ pc = "pulls"
    /\ idx <= Len(pulls)
    /\ IF BranchRejected(pull)
       THEN /\ idx' = idx + 1
            /\ outcomes' = Append(outcomes, Outcome("branch", ""))
            /\ UNCHANGED <<pc, pullRequests, headSHA, caller, bsCommit, bsPaged, bsRes>>
       ELSE /\ headSHA' = pull.FromRef.LatestCommit
            /\ IF BuildsConfigured
               THEN /\ caller' = "head"
                    /\ bsCommit' = pull.FromRef.LatestCommit
                    /\ bsPaged' = NoStart
                    /\ bsRes' = <<>>
                    /\ pc' = "status"
                    /\ UNCHANGED <<idx, pullRequests, outcomes>>
               ELSE /\ pullRequests' =
                         Append(pullRequests, PullRequestOf(pull, pull.FromRef.LatestCommit))
                    /\ idx' = idx + 1
                    /\ outcomes' = Append(outcomes, Outcome("head", pull.FromRef.LatestCommit))
                    /\ UNCHANGED <<pc, caller, bsCommit, bsPaged, bsRes>>
    /\ UNCHANGED <<args, svc, newErr, paged, response, pulls, commits, cidx,
                   foundGreenCommit, cPaged, cRes, ret, requests, checks, polVars>>

(* Mutant: a head commit that is not green always starts the search *)
AfterHeadCheckSearch(allGreen) ==
    /\ IF allGreen
       THEN /\ pullRequests' = Append(pullRequests, PullRequestOf(pull, headSHA))
            /\ idx' = idx + 1
            /\ pc' = "pulls"
            /\ outcomes' = Append(outcomes, Outcome("head", headSHA))
            /\ UNCHANGED <<cPaged, cRes>>
       ELSE /\ cPaged' = NoStart
            /\ cRes' = <<>>
            /\ pc' = "commits"
            /\ UNCHANGED <<pullRequests, idx, outcomes>>
    /\ UNCHANGED <<headSHA, cidx, foundGreenCommit>>

(* Mutant: with findLatestSuccessful the search runs even for a green head *)
AfterHeadCheckLatestFirst(allGreen) ==
    /\ IF allGreen /\ ~svc.findLatestSuccessful
       THEN /\ pullRequests' = Append(pullRequests, PullRequestOf(pull, headSHA))
            /\ idx' = idx + 1
            /\ pc' = "pulls"
            /\ outcomes' = Append(outcomes, Outcome("head", headSHA))
            /\ UNCHANGED <<cPaged, cRes>>
       ELSE IF ~svc.findLatestSuccessful
       THEN /\ idx' = idx + 1
            /\ pc' = "pulls"
            /\ outcomes' = Append(outcomes, Outcome("red", ""))
            /\ UNCHANGED <<pullRequests, cPaged, cRes>>
       ELSE /\ cPaged' = NoStart
            /\ cRes' = <<>>
            /\ pc' = "commits"
            /\ UNCHANGED <<pullRequests, idx, outcomes>>
    /\ UNCHANGED <<headSHA, cidx, foundGreenCommit>>

(* Mutant: an accepted pull request is put in front of the result *)
AfterHeadCheckPrepend(allGreen) ==
    /\ IF allGreen
       THEN /\ pullRequests' = <<PullRequestOf(pull, headSHA)>> \o pullRequests
            /\ idx' = idx + 1
            /\ pc' = "pulls"
            /\ outcomes' = Append(outcomes, Outcome("head", headSHA))
            /\ UNCHANGED <<cPaged, cRes>>
       ELSE IF ~svc.findLatestSuccessful
       THEN /\ idx' = idx + 1
            /\ pc' = "pulls"
            /\ outcomes' = Append(outcomes, Outcome("red", ""))
            /\ UNCHANGED <<pullRequests, cPaged, cRes>>
       ELSE /\ cPaged' = NoStart
            /\ cRes' = <<>>
            /\ pc' = "commits"
            /\ UNCHANGED <<pullRequests, idx, outcomes>>
    /\ UNCHANGED <<headSHA, cidx, foundGreenCommit>>

(* List after isCommitGreen(headSHA) returned allGreen *)
AfterHeadCheck(allGreen) ==
    /\ IF allGreen
       THEN /\ pullRequests' = Append(pullRequests, PullRequestOf(pull, headSHA))
            /\ idx' = idx + 1
            /\ pc' = "pulls"
            /\ outcomes' = Append(outcomes, Outcome("head", headSHA))
            /\ UNCHANGED <<cPaged, cRes>>
       ELSE IF ~svc.findLatestSuccessful
       THEN /\ idx' = idx + 1
            /\ pc' = "pulls"
            /\ outcomes' = Append(outcomes, Outcome("red", ""))
            /\ UNCHANGED <<pullRequests, cPaged, cRes>>
       ELSE /\ cPaged' = NoStart
            /\ cRes' = <<>>
            /\ pc' = "commits"
            /\ UNCHANGED <<pullRequests, idx, outcomes>>
    /\ UNCHANGED <<headSHA, cidx, foundGreenCommit>>

(* Mutant: the search stops at the first commit that is not green *)
AfterSearchCheckInverted(green) ==
    /\ foundGreenCommit' = ~green
    /\ IF ~green
       THEN /\ headSHA' = commits[cidx].ID
            /\ pullRequests' = Append(pullRequests, PullRequestOf(pull, commits[cidx].ID))
            /\ idx' = idx + 1
            /\ pc' = "pulls"
            /\ outcomes' = Append(outcomes, Outcome("found", commits[cidx].ID))
            /\ UNCHANGED cidx
       ELSE /\ cidx' = cidx + 1
            /\ pc' = "walk"
            /\ UNCHANGED <<headSHA, pullRequests, idx, outcomes>>
    /\ UNCHANGED <<cPaged, cRes>>

(* List after isCommitGreen(commit.ID) returned green during the search *)
AfterSearchCheck(green) ==
    /\ foundGreenCommit' = green
    /\ IF green
       THEN /\ headSHA' = commits[cidx].ID
            /\ pullRequests' = Append(pullRequests, PullRequestOf(pull, commits[cidx].ID))
            /\ idx' = idx + 1
            /\ pc' = "pulls"
            /\ outcomes' = Append(outcomes, Outcome("found", commits[cidx].ID))
            /\ UNCHANGED cidx
       ELSE /\ cidx' = cidx + 1
            /\ pc' = "walk"
            /\ UNCHANGED <<headSHA, pullRequests, idx, outcomes>>
    /\ UNCHANGED <<cPaged, cRes>>

(* One iteration of the loop of getBuildStatuses and, on the last page,    *)
(* the rest of isCommitGreen and the code of List that follows the call    *)
GetCommitBuildStatuses ==
    /\ pc = "status"
    /\ Len(requests) < MaxRequests
    /\ LET start == BuildStatusesStart(bsPaged) IN
       \E resp \in Responses("builds", bsCommit, 0, start,
                             Pages(Statuses, MaxStatusesPerPage, MaxStatusPages, start)) :
        /\ requests' = Append(requests, Request("builds", bsCommit, 0, start, resp))
        /\ IF resp.err # ""
           THEN /\ ReturnErr
                /\ UNCHANGED <<bsRes, bsPaged, checks, outcomes, pullRequests, idx,
                               headSHA, cidx, foundGreenCommit, cPaged, cRes>>
           ELSE /\ bsRes' = bsRes \o resp.values
                /\ IF HasNextPage(resp).hasNextPage
                   THEN /\ bsPaged' = HasNextPage(resp).nextPageStart
                        /\ UNCHANGED <<pc, ret, checks, outcomes, pullRequests, idx,
                                       headSHA, cidx, foundGreenCommit, cPaged, cRes>>
                   ELSE LET allGreen == isCommitGreen(svc.successfulBuilds.v, bsRes') IN
                        /\ checks' = Append(checks,
                               [page |-> PageNo(paged), at |-> idx, pull |-> pull,
                                caller |-> caller, commits |-> commits, cidx |-> cidx,
                                commit |-> bsCommit, statuses |-> bsRes',
                                green |-> allGreen])
                        /\ IF caller = "head"
                           THEN AfterHeadCheck(allGreen)
                           ELSE AfterSearchCheck(allGreen)
                        /\ UNCHANGED <<bsPaged, ret>>
    /\ UNCHANGED <<args, svc, newErr, paged, response, pulls, commits, caller,
                   bsCommit, polVars>>

(* GetCommitBuildStatuses against a server whose builds go on while List   *)
(* runs: the build statuses of a commit are fetched anew by every request  *)
(* and may differ from those an earlier request of the call received.      *)
GetCommitBuildStatusesAnew ==
    /\ pc = "status"
    /\ Len(requests) < MaxRequests
    /\ LET start == BuildStatusesStart(bsPaged) IN
       \E resp \in Failures \cup
                   Pages(Statuses, MaxStatusesPerPage, MaxStatusPages, start) :
        /\ requests' = Append(requests, Request("builds", bsCommit, 0, start, resp))
        /\ IF resp.err # ""
           THEN /\ ReturnErr
                /\ UNCHANGED <<bsRes, bsPaged, checks, outcomes, pullRequests, idx,
                               headSHA, cidx, foundGreenCommit, cPaged, cRes>>
           ELSE /\ bsRes' = bsRes \o resp.values
                /\ IF HasNextPage(resp).hasNextPage
                   THEN /\ bsPaged' = HasNextPage(resp).nextPageStart
                        /\ UNCHANGED <<pc, ret, checks, outcomes, pullRequests, idx,
                                       headSHA, cidx, foundGreenCommit, cPaged, cRes>>
                   ELSE LET allGreen == isCommitGreen(svc.successfulBuilds.v, bsRes') IN
                        /\ checks' = Append(checks,
                               [page |-> PageNo(paged), at |-> idx, pull |-> pull,
                                caller |-> caller, commits |-> commits, cidx |-> cidx,
                                commit |-> bsCommit, statuses |-> bsRes',
                                green |-> allGreen])
                        /\ IF caller = "head"
                           THEN AfterHeadCheck(allGreen)
                           ELSE AfterSearchCheck(allGreen)
                        /\ UNCHANGED <<bsPaged, ret>>
    /\ UNCHANGED <<args, svc, newErr, paged, response, pulls, commits, caller,
                   bsCommit, polVars>>

(* One iteration of the loop of getPullRequestCommits *)
GetPullRequestCommits ==
    /\ pc = "commits"
    /\ Len(requests) < MaxRequests
    /\ LET start == PullRequestCommitsStart(cPaged) IN
       \E resp \in Responses("commits", "", pull.ID, start,
                             Pages(Commits, MaxCommitsPerPage, MaxCommitPages, start)) :
        /\ requests' = Append(requests, Request("commits", "", pull.ID, start, resp))
        /\ IF resp.err # ""
           THEN /\ ReturnErr
                /\ UNCHANGED <<cRes, cPaged, commits, cidx, foundGreenCommit>>
           ELSE /\ cRes' = cRes \o resp.values
                /\ UNCHANGED ret
                /\ IF HasNextPage(resp).hasNextPage
                   THEN /\ cPaged' = HasNextPage(resp).nextPageStart
                        /\ UNCHANGED <<pc, commits, cidx, foundGreenCommit>>
                   ELSE /\ commits' = cRes'
                        /\ cidx' = 1
                        /\ foundGreenCommit' = FALSE
                        /\ pc' = "walk"
                        /\ UNCHANGED cPaged
    /\ UNCHANGED <<args, svc, newErr, paged, pullRequests, response, pulls, idx, headSHA,
                   caller, bsCommit, bsPaged, bsRes, checks, outcomes, polVars>>

(* Mutant: the search gives up after the first entry of the commit list *)
WalkFirstOnly ==
    /\ pc = "walk"
    /\ IF cidx > Len(commits) \/ cidx > 1
       THEN /\ idx' = idx + 1
            /\ pc' = "pulls"
            /\ outcomes' = Append(outcomes, Outcome("none", ""))
            /\ UNCHANGED <<cidx, caller, bsCommit, bsPaged, bsRes>>
       ELSE IF commits[cidx].ID = pull.FromRef.ID
       THEN /\ cidx' = cidx + 1
            /\ UNCHANGED <<pc, idx, caller, bsCommit, bsPaged, bsRes, outcomes>>
       ELSE /\ caller' = "search"
            /\ bsCommit' = commits[cidx].ID
            /\ bsPaged' = NoStart
            /\ bsRes' = <<>>
            /\ pc' = "status"
            /\ UNCHANGED <<cidx, idx, outcomes>>
    /\ UNCHANGED <<args, svc, newErr, paged, pullRequests, response, pulls, headSHA,
                   commits, foundGreenCommit, cPaged, cRes, ret, requests, checks,
                   polVars>>

(* The range loop over commits, up to the next isCommitGreen call *)
Walk ==
    /\ pc = "walk"
    /\ IF cidx > Len(commits)
       THEN /\ idx' = idx + 1
            /\ pc' = "pulls"
            /\ outcomes' = Append(outcomes, Outcome("none", ""))
            /\ UNCHANGED <<cidx, caller, bsCommit, bsPaged, bsRes>>
       ELSE IF commits[cidx].ID = pull.FromRef.ID
       THEN /\ cidx' = cidx + 1
            /\ UNCHANGED <<pc, idx, caller, bsCommit, bsPaged, bsRes, outcomes>>
       ELSE /\ caller' = "search"
            /\ bsCommit' = commits[cidx].ID
            /\ bsPaged' = NoStart
            /\ bsRes' = <<>>
            /\ pc' = "status"
            /\ UNCHANGED <<cidx, idx, outcomes>>
    /\ UNCHANGED <<args, svc, newErr, paged, pullRequests, response, pulls, headSHA,
                   commits, foundGreenCommit, cPaged, cRes, ret, requests, checks,
                   polVars>>

----------------------------------------------------------------------------
(* The build-status policy called on its own *)

PolPatterns ==
    {RegexpCompile(p) : p \in {<<"a">>, <<"b">>, <<"^", "b">>, <<"a", "$">>}}

PolStatuses ==
    {[Name |-> n, State |-> s] :
        n \in {<<"a", "b">>, <<"b">>, <<"b", "a">>},
        s \in {SUCCESSFUL, "FAILED", "INPROGRESS"}}

NoArgs ==
    [branchMatch |-> <<>>, successfulBuilds |-> [nil |-> TRUE, v |-> <<>>],
     findLatestSuccessful |-> FALSE]

VerifyBuilds ==
    /\ pc = "policy"
    /\ polOut' = [named |-> verifyListedBuildsSuccessful(polIn.patterns, polIn.statuses),
                  all |-> verifyAllBuildsSuccessful(polIn.statuses),
                  green |-> isCommitGreen(polIn.patterns, polIn.statuses)]
    /\ pc' = "verified"
    /\ UNCHANGED <<args, svc, newErr, listVars, ret, requests, checks, outcomes, polIn>>

----------------------------------------------------------------------------
NoResponse == [err |-> "", values |-> <<>>, isLastPage |-> TRUE, nextPageStart |-> NoStart]

InitList ==
    /\ paged = NoStart
    /\ pullRequests = <<>>
    /\ response = NoResponse
    /\ pulls = <<>>
    /\ idx = 1
    /\ headSHA = ""
    /\ commits = <<>>
    /\ cidx = 1
    /\ foundGreenCommit = FALSE
    /\ caller = ""
    /\ bsCommit = ""
    /\ bsPaged = NoStart
    /\ bsRes = <<>>
    /\ cPaged = NoStart
    /\ cRes = <<>>
    /\ ret = NoReturn
    /\ requests = <<>>
    /\ checks = <<>>
    /\ outcomes = <<>>

(* The build-status policy functions called on their own *)
InitPolicy ==
    /\ svc = NoService
    /\ newErr = FALSE
    /\ InitList
    /\ polOut = [named |-> FALSE, all |-> FALSE, green |-> FALSE]
    /\ pc = "policy"
    /\ args = NoArgs
    /\ polIn \in [patterns : SeqsUpTo(PolPatterns, MaxPolPatterns),
                   statuses : SeqsUpTo(PolStatuses, MaxPolStatuses)]

(* A service is constructed and List is called on it *)
InitService ==
    /\ svc = NoService
    /\ newErr = FALSE
    /\ InitList
    /\ polOut = [named |-> FALSE, all |-> FALSE, green |-> FALSE]
    /\ pc = "new"
    /\ args \in Args
    /\ polIn = [patterns |-> <<>>, statuses |-> <<>>]

Init == InitService \/ InitPolicy

Next ==
    \/ newBitbucketService
    \/ ListBegin
    \/ GetPullRequestsPage
    \/ NextPage
    \/ NextPull
    \/ GetCommitBuildStatuses
    \/ GetPullRequestCommits
    \/ Walk
    \/ VerifyBuilds

Spec == Init /\ [][Next]_vars

(* List on a service constructed without a build policy: no green check  *)
(* is ever called, the steps of List that are left are the page loop.     *)
InitNoPolicy ==
    /\ InitService
    /\ args.successfulBuilds.nil

NextNoPolicy ==
    \/ newBitbucketService
    \/ ListBegin
    \/ GetPullRequestsPage
    \/ NextPage
    \/ NextPull

SpecNoPolicy == InitNoPolicy /\ [][NextNoPolicy]_vars

(* List against a server whose build statuses may change during the call *)
NextBuildsChange ==
    \/ newBitbucketService
    \/ ListBegin
    \/ GetPullRequestsPage
    \/ NextPage
    \/ NextPull
    \/ GetCommitBuildStatusesAnew
    \/ GetPullRequestCommits
    \/ Walk

SpecBuildsChange == InitService /\ [][NextBuildsChange]_vars

NextPolicy == VerifyBuilds

SpecPolicy == InitPolicy /\ [][NextPolicy]_vars

----------------------------------------------------------------------------
(* Vocabulary of the properties, stated without the loops of the code *)

(* s contains a match of the pattern somewhere (search, not full match) *)
HasMatch(re, s) ==
    \E i \in 1..(Len(s) + 1) : \E j \in (i - 1)..Len(s) :
        /\ SubSeq(s, i, j) = re.lit
        /\ re.anchorStart => i = 1
        /\ re.anchorEnd => j = Len(s)

AllGreen(statuses) == \A i \in 1..Len(statuses) : statuses[i].State = "SUCCESSFUL"

NamedGreen(patterns, statuses) ==
    \A k \in 1..Len(patterns) : \E i \in 1..Len(statuses) :
        /\ HasMatch(patterns[k], statuses[i].Name)
        /\ statuses[i].State = "SUCCESSFUL"

(* The items of the pages of one kind received so far, in request order *)
RECURSIVE ServedValues(_, _)
ServedValues(kind, n) ==
    IF n = 0 THEN <<>>
    ELSE ServedValues(kind, n - 1) \o
         (IF requests[n].kind = kind /\ requests[n].resp.err = ""
          THEN requests[n].resp.values ELSE <<>>)

ServedPulls == ServedValues("pulls", Len(requests))

PassesBranchFilter(p) ==
    Len(svc.branchMatch) = 0 \/ HasMatch(svc.branchMatch[1], p.FromRef.DisplayID)

(* The result entries of pull requests accepted with their head commit *)
HeadEntries(ps) ==
    [i \in 1..Len(ps) |->
        [Number |-> ps[i].ID, Branch |-> ps[i].FromRef.DisplayID,
         HeadSHA |-> ps[i].FromRef.LatestCommit]]

IsAccepted(o) == o.kind \in {"head", "found"}

AcceptedOutcomes == SelectSeq(outcomes, IsAccepted)

Returned == pc = "done" /\ ~ret.err

Failed(i) == requests[i].resp.err # ""

IsKind(i, kind) == requests[i].kind = kind

(* The requests of this kind issued before request j, the latest one *)
Prev(kind, j) ==
    {i \in 1..(j - 1) : IsKind(i, kind) /\ \A k \in (i + 1)..(j - 1) : ~IsKind(k, kind)}

----------------------------------------------------------------------------
(* C1: with a branch-match pattern and no build policy, List returns        *)
(* exactly the served pull requests whose branch display name contains a    *)
(* match of the pattern, in served order, and no others.                    *)
C1_BranchMatchExact ==
    (Returned /\ Len(svc.branchMatch) # 0 /\ svc.successfulBuilds.nil)
        => ret.v = HeadEntries(SelectSeq(ServedPulls, PassesBranchFilter))

(* A call that served two pull requests and kept one, whose branch is       *)
(* longer than the pattern's literal: a match by search alone.              *)
C1_Witness ==
    /\ Returned
    /\ Len(svc.branchMatch) # 0
    /\ svc.successfulBuilds.nil
    /\ Len(ServedPulls) = 2
    /\ Len(ret.v) = 1
    /\ ret.v[1].Branch # svc.branchMatch[1].lit

(* C2: List follows the page cursor of the pull-request listing: the first *)
(* request carries no start, every later one the nextPageStart of the page *)
(* before it, which was not the last; no page is requested twice; and the  *)
(* result is made of the accepted items of the pages, in page order (all   *)
(* served items when nothing filters).                                     *)
PageValues(n) ==
    UNION {{requests[i].resp.values} : i \in {j \in 1..Len(requests) :
        IsKind(j, "pulls") /\ ~Failed(j) /\ PageNo(requests[j].start) = n}}

C2_PullCursor ==
    /\ \A j \in 1..Len(requests) : IsKind(j, "pulls") =>
          IF Prev("pulls", j) = {}
          THEN requests[j].start = NoStart
          ELSE \A i \in Prev("pulls", j) :
                  /\ ~Failed(i)
                  /\ ~requests[i].resp.isLastPage
                  /\ requests[j].start = requests[i].resp.nextPageStart
    /\ \A i, j \in 1..Len(requests) :
          (IsKind(i, "pulls") /\ IsKind(j, "pulls") /\ i # j)
              => requests[i].start # requests[j].start
    /\ Returned =>
          LET acc == AcceptedOutcomes IN
          /\ Len(ret.v) = Len(acc)
          /\ \A k \in 1..Len(acc) :
                /\ ret.v[k].Number = acc[k].pull.ID
                /\ ret.v[k].Branch = acc[k].pull.FromRef.DisplayID
                /\ \E v \in PageValues(acc[k].page) :
                      acc[k].at <= Len(v) /\ v[acc[k].at] = acc[k].pull
          /\ \A k, l \in 1..Len(acc) : k < l =>
                \/ acc[k].page < acc[l].page
                \/ acc[k].page = acc[l].page /\ acc[k].at < acc[l].at
          /\ (Len(svc.branchMatch) = 0 /\ svc.successfulBuilds.nil)
                => ret.v = HeadEntries(ServedPulls)

(* Two pages were requested and each gave one entry of the result *)
C2_Witness ==
    /\ Returned
    /\ Cardinality({i \in 1..Len(requests) : IsKind(i, "pulls")}) = 2
    /\ Len(ret.v) = 2
    /\ ret.v[1].Number # ret.v[2].Number

(* C3: a failed fetch or parse is the last request of the call; List has   *)
(* returned an error and no pull requests, whatever it had accepted.       *)
C3_FailFast ==
    \A i \in 1..Len(requests) : Failed(i) =>
        /\ i = Len(requests)
        /\ pc = "done"
        /\ ret.err
        /\ ret.nil
        /\ ret.v = <<>>

(* A build-status or commits request failed after a pull request had been  *)
(* accepted.                                                               *)
C3_Witness ==
    /\ pc = "done"
    /\ ret.err
    /\ Len(pullRequests) > 0
    /\ Len(requests) > 0
    /\ ~IsKind(Len(requests), "pulls")
    /\ Failed(Len(requests))

(* C4: the green check follows the page cursor of the build statuses: a   *)
(* build-status page that is not the last is followed by a request that    *)
(* carries its nextPageStart.                                              *)
C4_BuildStatusCursor ==
    \A i \in 1..(Len(requests) - 1) :
        (IsKind(i, "builds") /\ ~Failed(i) /\ ~requests[i].resp.isLastPage)
            => /\ IsKind(i + 1, "builds")
               /\ requests[i + 1].start = requests[i].resp.nextPageStart

(* C5: the fallback search never runs a green check on the head commit of  *)
(* the pull request, whose build statuses were fetched before the search.  *)
C5_SearchSkipsHead ==
    (pc = "status" /\ caller = "search") => bsCommit # pull.FromRef.LatestCommit

(* C6: the fallback search checks the candidates (the commits whose id is  *)
(* not the pull request's fromRef.id) in list order, each once, and stops  *)
(* at the first green one, which becomes the headSHA.                      *)
SameKey(a, b) == a.page = b.page /\ a.at = b.at

IsSearch(n) == checks[n].caller = "search"

IsCandidate(e, q) == e.commits[q].ID # e.pull.FromRef.ID

SearchChecksAt(e, q) ==
    {m \in 1..Len(checks) : IsSearch(m) /\ SameKey(checks[m], e) /\ checks[m].cidx = q}

C6_FirstGreenCandidate ==
    /\ \A n \in 1..Len(checks) : IsSearch(n) =>
          LET e == checks[n] IN
          /\ e.cidx \in 1..Len(e.commits)
          /\ e.commit = e.commits[e.cidx].ID
          /\ IsCandidate(e, e.cidx)
          /\ SearchChecksAt(e, e.cidx) = {n}
          /\ \A q \in 1..(e.cidx - 1) : IsCandidate(e, q) =>
                \E m \in 1..(n - 1) :
                    /\ SearchChecksAt(e, q) = {m}
                    /\ ~checks[m].green
                    /\ checks[m].commit = e.commits[q].ID
          /\ e.green =>
                /\ \A m \in (n + 1)..Len(checks) : ~SameKey(checks[m], e)
                /\ \E k \in 1..Len(outcomes) :
                      /\ SameKey(outcomes[k], e)
                      /\ outcomes[k].kind = "found"
                      /\ outcomes[k].headSHA = e.commit
    /\ \A k \in 1..Len(outcomes) : outcomes[k].kind = "found" =>
          \E n \in 1..Len(checks) :
              /\ IsSearch(n)
              /\ SameKey(checks[n], outcomes[k])
              /\ checks[n].green
              /\ checks[n].commit = outcomes[k].headSHA
    /\ Len(pullRequests) = Len(AcceptedOutcomes)
    /\ \A k \in 1..Len(pullRequests) :
          /\ pullRequests[k].HeadSHA = AcceptedOutcomes[k].headSHA
          /\ pullRequests[k].Number = AcceptedOutcomes[k].pull.ID
    /\ (pc = "status" /\ caller = "search") =>
          \A n \in 1..Len(checks) :
              (IsSearch(n) /\ checks[n].page = PageNo(paged) /\ checks[n].at = idx)
                  => ~checks[n].green /\ checks[n].cidx < cidx

(* A search that found a candidate not green, then a green one further     *)
(* down the list, and returned it.                                         *)
C6_Witness ==
    /\ Returned
    /\ \E n \in 1..Len(checks) : \E m \in 1..(n - 1) :
          /\ IsSearch(n) /\ IsSearch(m)
          /\ SameKey(checks[n], checks[m])
          /\ checks[n].green /\ ~checks[m].green
          /\ checks[n].commit # checks[m].commit
          /\ \E k \in 1..Len(ret.v) : ret.v[k].HeadSHA = checks[n].commit

(* C7: with no build policy (successfulBuilds nil) List requests nothing   *)
(* but pull-request pages, and returns every served pull request that      *)
(* passes the branch filter, with its head commit.                         *)
C7_NoPolicy ==
    (svc.successfulBuilds.nil /\ pc \in {"page", "pulls", "status", "commits", "walk", "done"})
        => /\ \A i \in 1..Len(requests) : IsKind(i, "pulls")
           /\ checks = <<>>
           /\ Returned => ret.v = HeadEntries(SelectSeq(ServedPulls, PassesBranchFilter))

C7_Witness ==
    /\ Returned
    /\ svc.successfulBuilds.nil
    /\ Len(ret.v) = 2
    /\ Len(requests) = 2

(* C8: a green check with a non-empty pattern set is the verdict of        *)
(* NamedGreen on the statuses fetched, a green check with an empty one the *)
(* verdict of AllGreen.                                                    *)
Dispatch(patterns, statuses) ==
    IF Len(patterns) # 0 THEN NamedGreen(patterns, statuses) ELSE AllGreen(statuses)

C8_Dispatch ==
    /\ \A n \in 1..Len(checks) :
          checks[n].green = Dispatch(svc.successfulBuilds.v, checks[n].statuses)
    /\ pc = "verified" => polOut.green = Dispatch(polIn.patterns, polIn.statuses)

(* A check under a non-empty pattern set that AllGreen would have decided  *)
(* the other way.                                                          *)
C8_Witness ==
    \E n \in 1..Len(checks) :
        /\ Len(svc.successfulBuilds.v) # 0
        /\ checks[n].green # AllGreen(checks[n].statuses)

(* C9: verifyListedBuildsSuccessful is true iff every pattern has a build  *)
(* whose name matches it and whose state is SUCCESSFUL.                    *)
C9_NamedGreen ==
    pc = "verified" =>
        polOut.named = NamedGreen(polIn.patterns, polIn.statuses)

(* Two patterns, one with a successful build, one matching only a build    *)
(* that is not successful: not green.                                      *)
C9_Witness ==
    /\ pc = "verified"
    /\ ~polOut.named
    /\ Len(polIn.patterns) = 2
    /\ NamedGreen(<<polIn.patterns[1]>>, polIn.statuses)
    /\ \E i \in 1..Len(polIn.statuses) :
          HasMatch(polIn.patterns[2], polIn.statuses[i].Name)

(* C10: verifyAllBuildsSuccessful is true iff every status is SUCCESSFUL,  *)
(* true for no statuses; so under an empty (not nil) pattern set a pull    *)
(* request whose head commit has no build status is accepted with it.      *)
C10_AllGreen ==
    /\ pc = "verified" => polOut.all = AllGreen(polIn.statuses)
    /\ \A n \in 1..Len(checks) :
          (Len(svc.successfulBuilds.v) = 0 /\ checks[n].caller = "head"
                /\ checks[n].statuses = <<>>)
              => /\ checks[n].green
                 /\ \E k \in 1..Len(pullRequests) :
                       pullRequests[k] = HeadEntries(<<checks[n].pull>>)[1]
    /\ Returned => ret.v = pullRequests

C10_Witness ==
    /\ Returned
    /\ ~svc.successfulBuilds.nil
    /\ Len(svc.successfulBuilds.v) = 0
    /\ Len(ret.v) > 0
    /\ \E n \in 1..Len(checks) : checks[n].statuses = <<>> /\ checks[n].green

----------------------------------------------------------------------------
(* Vocabulary of the claims about one pull request of the listing.  A      *)
(* position is a record with fields page and at: the at-th pull request of *)
(* page number page.                                                       *)

ReqsAt(o, kind) ==
    {i \in 1..Len(requests) : IsKind(i, kind) /\ SameKey(requests[i], o)}

IsHead(n) == checks[n].caller = "head"

HeadChecksAt(o) == {n \in 1..Len(checks) : IsHead(n) /\ SameKey(checks[n], o)}

(* The pull request the server listed at a position *)
ServedAt(o) ==
    {requests[j].resp.values[o.at] : j \in {i \in 1..Len(requests) :
        /\ IsKind(i, "pulls") /\ ~Failed(i)
        /\ PageNo(requests[i].start) = o.page
        /\ o.at \in 1..Len(requests[i].resp.values)}}

(* The id of this pull request is listed once by the server *)
ListedOnce(p) ==
    Cardinality({i \in 1..Len(ServedPulls) : ServedPulls[i].ID = p.ID}) = 1

NoEntryFor(p) == \A k \in 1..Len(pullRequests) : pullRequests[k].Number # p.ID

(* After the k-th outcome List went on with the next pull request: the next *)
(* outcome is that of the next position, and as long as there is none List  *)
(* stands at the next position, has returned at the end of the last page,   *)
(* or has failed on a later request.                                       *)
Continues(k) ==
    LET o == outcomes[k] IN
    IF k < Len(outcomes)
    THEN \/ outcomes[k + 1].page = o.page /\ outcomes[k + 1].at = o.at + 1
         \/ outcomes[k + 1].page > o.page /\ outcomes[k + 1].at = 1
    ELSE /\ PageNo(paged) >= o.page
         /\ PageNo(paged) = o.page => idx = o.at + 1
         /\ (pc = "done" /\ ~ret.err) => (idx > Len(pulls) /\ response.isLastPage)
         /\ (pc = "done" /\ ret.err) =>
                (Failed(Len(requests)) /\ ~SameKey(requests[Len(requests)], o))

OutcomesAt(o, kind) ==
    {k \in 1..Len(outcomes) : SameKey(outcomes[k], o) /\ outcomes[k].kind = kind}

(* C11: under a build policy, when the head commit of a pull request is    *)
(* not green and findLatestSuccessful is false, the pull request is left    *)
(* out of the result, no pull-request-commits request is made for it, and   *)
(* List goes on with the next pull request.                                *)
C11_RedHeadSkipped ==
    \A n \in 1..Len(checks) :
        (IsHead(n) /\ ~checks[n].green /\ ~svc.findLatestSuccessful) =>
            /\ ~svc.successfulBuilds.nil
            /\ ReqsAt(checks[n], "commits") = {}
            /\ ListedOnce(checks[n].pull) => NoEntryFor(checks[n].pull)
            /\ \E k \in OutcomesAt(checks[n], "red") : Continues(k)
            /\ OutcomesAt(checks[n], "head") = {}
            /\ OutcomesAt(checks[n], "found") = {}

(* A pull request skipped for its red head commit, and the next one         *)
(* accepted: the result holds the second one only.                          *)
C11_Witness ==
    /\ Returned
    /\ ~svc.findLatestSuccessful
    /\ Len(outcomes) = 2
    /\ outcomes[1].kind = "red"
    /\ outcomes[2].kind = "head"
    /\ Len(ret.v) = 1
    /\ ret.v[1].Number # outcomes[1].pull.ID

(* C12: under a build policy, a pull request whose head commit is green is *)
(* accepted with its head commit as headSHA, whatever findLatestSuccessful *)
(* is, and no pull-request-commits request is made for it.                 *)
C12_GreenHeadAccepted ==
    \A n \in 1..Len(checks) :
        (IsHead(n) /\ checks[n].green) =>
            LET p == checks[n].pull IN
            /\ ~svc.successfulBuilds.nil
            /\ checks[n].commit = p.FromRef.LatestCommit
            /\ ReqsAt(checks[n], "commits") = {}
            /\ \A i \in ReqsAt(checks[n], "builds") : requests[i].loop = 0
            /\ \E k \in 1..Len(pullRequests) : pullRequests[k] = HeadEntries(<<p>>)[1]
            /\ ListedOnce(p) =>
                  \A k \in 1..Len(pullRequests) :
                      pullRequests[k].Number = p.ID
                          => pullRequests[k].HeadSHA = p.FromRef.LatestCommit
            /\ \E k \in OutcomesAt(checks[n], "head") :
                  outcomes[k].headSHA = p.FromRef.LatestCommit /\ Continues(k)

(* findLatestSuccessful is set, the head commit is green: the pull request *)
(* is returned with it after one build-status request and no other.        *)
C12_Witness ==
    /\ Returned
    /\ svc.findLatestSuccessful
    /\ Len(checks) = 1
    /\ IsHead(1) /\ checks[1].green
    /\ Len(ret.v) = 1
    /\ ret.v[1].HeadSHA = checks[1].pull.FromRef.LatestCommit
    /\ Len(requests) = 2

(* C13: when the server lists each pull request id once, the numbers of    *)
(* the result are a subsequence of the listed ids in page order: every     *)
(* listed pull request gets one outcome (skipped, accepted with its head   *)
(* commit, accepted with a substituted commit), no number comes twice and   *)
(* the order is that of the listing.                                       *)
RECURSIVE IsSubseq(_, _, _, _)
IsSubseq(a, i, b, j) ==
    IF i > Len(a) THEN TRUE
    ELSE IF j > Len(b) THEN FALSE
    ELSE IF a[i] = b[j] THEN IsSubseq(a, i + 1, b, j + 1)
    ELSE IsSubseq(a, i, b, j + 1)

IdsOf(ps) == [i \in 1..Len(ps) |-> ps[i].ID]

NumbersOf(prs) == [i \in 1..Len(prs) |-> prs[i].Number]

AllListedOnce == \A i \in 1..Len(ServedPulls) : ListedOnce(ServedPulls[i])

C13_StableSubsequence ==
    AllListedOnce =>
        /\ IsSubseq(NumbersOf(pullRequests), 1, IdsOf(ServedPulls), 1)
        /\ \A k, l \in 1..Len(pullRequests) :
              k # l => pullRequests[k].Number # pullRequests[l].Number
        /\ Len(outcomes) <= Len(ServedPulls)
        /\ \A k \in 1..Len(outcomes) :
              /\ outcomes[k].pull = ServedPulls[k]
              /\ outcomes[k].kind \in {"branch", "red", "none", "head", "found"}
              /\ IsAccepted(outcomes[k]) <=>
                    \E e \in 1..Len(pullRequests) :
                        pullRequests[e].Number = outcomes[k].pull.ID
        /\ Returned =>
              /\ ret.v = pullRequests
              /\ ~ret.nil
              /\ Len(outcomes) = Len(ServedPulls)

(* Two pull requests listed, the first accepted with a substituted commit, *)
(* the second skipped by the branch filter.                                *)
C13_Witness ==
    /\ Returned
    /\ AllListedOnce
    /\ Len(ServedPulls) = 2
    /\ Len(outcomes) = 2
    /\ outcomes[1].kind = "found"
    /\ outcomes[2].kind = "branch"
    /\ NumbersOf(ret.v) = <<ServedPulls[1].ID>>

(* C14: constructing the service with a branch-match pattern or a build-   *)
(* name pattern that is not a valid regular expression fails with an error *)
(* and gives no service, and no request has been made; a construction with *)
(* valid patterns makes no request either.                                 *)
InvalidPattern(p) == \E i \in 1..Len(p) : p[i] = "["

BadArgs ==
    \/ \E i \in 1..Len(args.branchMatch) : InvalidPattern(args.branchMatch[i])
    \/ \E i \in 1..Len(args.successfulBuilds.v) : InvalidPattern(args.successfulBuilds.v[i])

C14_InvalidPatternFails ==
    /\ pc = "failed" => (BadArgs /\ newErr /\ svc = NoService /\ requests = <<>>)
    /\ pc = "ready" => (~BadArgs /\ ~newErr /\ requests = <<>>)
    /\ BadArgs => (pc \in {"new", "failed"} /\ requests = <<>> /\ ret = NoReturn)
    /\ newErr => pc = "failed"

(* The branch pattern and the first build-name pattern are valid, the      *)
(* second build-name pattern is not.                                       *)
C14_Witness ==
    /\ pc = "failed"
    /\ newErr
    /\ Len(args.branchMatch) = 1
    /\ ~InvalidPattern(args.branchMatch[1])
    /\ Len(args.successfulBuilds.v) = 2
    /\ ~InvalidPattern(args.successfulBuilds.v[1])
    /\ InvalidPattern(args.successfulBuilds.v[2])
    /\ requests = <<>>

(* C15: a List call whose requests all succeed and in which no pull        *)
(* request qualifies returns an empty result, not nil, with no error; a    *)
(* call with a failed request returns nil and an error.                    *)
NoFailure == \A i \in 1..Len(requests) : ~Failed(i)

NoneAccepted == \A k \in 1..Len(outcomes) : ~IsAccepted(outcomes[k])

C15_EmptyNotAbsent ==
    /\ (pc = "done" /\ NoFailure) =>
          /\ ~ret.err
          /\ ~ret.nil
          /\ Len(outcomes) = Len(ServedPulls)
          /\ NoneAccepted => ret.v = <<>>
    /\ (pc = "done" /\ ~NoFailure) => (ret.err /\ ret.nil)
    /\ pc = "done" => (ret.err <=> ret.nil)

(* Two pull requests listed, one skipped by the branch filter, one by the  *)
(* build policy: the result is empty.                                      *)
C15_Witness ==
    /\ Returned
    /\ NoFailure
    /\ Len(outcomes) = 2
    /\ \E k \in 1..2 : outcomes[k].kind = "branch"
    /\ \E k \in 1..2 : outcomes[k].kind = "red"
    /\ ret = [nil |-> FALSE, v |-> <<>>, err |-> FALSE]

(* C16: for a pull request the branch-match pattern rejects, List makes no *)
(* build-status request and no pull-request-commits request, whatever the  *)
(* build policy and findLatestSuccessful are: every such request is made   *)
(* for a listed pull request that passes the branch filter.                *)
C16_RejectedNoFetch ==
    /\ \A i \in 1..Len(requests) :
          (IsKind(i, "builds") \/ IsKind(i, "commits")) =>
              /\ ServedAt(requests[i]) # {}
              /\ \A p \in ServedAt(requests[i]) : PassesBranchFilter(p)
    /\ \A k \in 1..Len(outcomes) :
          /\ outcomes[k].kind = "branch" <=> ~PassesBranchFilter(outcomes[k].pull)
          /\ outcomes[k].kind = "branch" =>
                /\ ReqsAt(outcomes[k], "builds") = {}
                /\ ReqsAt(outcomes[k], "commits") = {}
                /\ Continues(k)

(* A build policy with findLatestSuccessful: the first pull request is     *)
(* rejected by the branch pattern without a request, the second is checked  *)
(* and accepted.                                                           *)
C16_Witness ==
    /\ Returned
    /\ ~svc.successfulBuilds.nil
    /\ svc.findLatestSuccessful
    /\ Len(outcomes) = 2
    /\ outcomes[1].kind = "branch"
    /\ outcomes[2].kind = "head"
    /\ ReqsAt(outcomes[2], "builds") # {}
    /\ Len(requests) = 3

(* The commits fetched for the pull request at a position, in the order    *)
(* the server returned them                                                *)
RECURSIVE FetchedCommits(_, _)
FetchedCommits(o, n) ==
    IF n = 0 THEN <<>>
    ELSE FetchedCommits(o, n - 1) \o
         (IF IsKind(n, "commits") /\ SameKey(requests[n], o) /\ ~Failed(n)
          THEN requests[n].resp.values ELSE <<>>)

SearchChecksOf(o) == {m \in 1..Len(checks) : IsSearch(m) /\ SameKey(checks[m], o)}

(* C17: with findLatestSuccessful and a head commit that is not green, a   *)
(* pull request none of whose candidates (the fetched commits whose id is   *)
(* not its fromRef.id) is green has had every candidate checked, is left    *)
(* out of the result without an error, and List goes on with the next one;  *)
(* so it is with an empty commit list and with a list of skipped entries.   *)
C17_NoGreenCandidate ==
    \A k \in 1..Len(outcomes) : outcomes[k].kind = "none" =>
        LET o == outcomes[k]
            cs == FetchedCommits(o, Len(requests))
        IN  /\ svc.findLatestSuccessful
            /\ ~svc.successfulBuilds.nil
            /\ \E n \in HeadChecksAt(o) : ~checks[n].green
            /\ ReqsAt(o, "commits") # {}
            /\ \A i \in ReqsAt(o, "commits") :
                  /\ ~Failed(i)
                  /\ (\A j \in ReqsAt(o, "commits") : j <= i) <=> requests[i].resp.isLastPage
            /\ \A q \in 1..Len(cs) : cs[q].ID # o.pull.FromRef.ID =>
                  \E m \in SearchChecksOf(o) :
                      /\ checks[m].cidx = q
                      /\ checks[m].commit = cs[q].ID
            /\ \A m \in SearchChecksOf(o) : ~checks[m].green
            /\ ListedOnce(o.pull) => NoEntryFor(o.pull)
            /\ Continues(k)

(* Two commits fetched, both checked, neither green: the pull request is   *)
(* skipped and List returns an empty result.                               *)
C17_Witness ==
    /\ Returned
    /\ Len(outcomes) = 1
    /\ outcomes[1].kind = "none"
    /\ Len(FetchedCommits(outcomes[1], Len(requests))) = 2
    /\ Cardinality(SearchChecksOf(outcomes[1])) = 2
    /\ ret.v = <<>>

(* The position List stands at *)
Here == [page |-> PageNo(paged), at |-> idx]

(* The latest request of this kind issued before request j for the same    *)
(* pull request                                                            *)
PrevAt(kind, j) ==
    {i \in 1..(j - 1) :
        /\ IsKind(i, kind) /\ SameKey(requests[i], requests[j])
        /\ \A k \in (i + 1)..(j - 1) :
              ~(IsKind(k, kind) /\ SameKey(requests[k], requests[j]))}

(* C18: the commit-history fetch of a pull request follows the page        *)
(* cursor: its first request carries no start, each later one the          *)
(* nextPageStart of the page before, none follows the last page; and the   *)
(* commits it returns are those of all its pages, concatenated in the      *)
(* order served.                                                           *)
C18_CommitCursor ==
    /\ \A j \in 1..Len(requests) : IsKind(j, "commits") =>
          /\ requests[j].pull \in {p.ID : p \in ServedAt(requests[j])}
          /\ IF PrevAt("commits", j) = {}
             THEN requests[j].start = NoStart
             ELSE \A i \in PrevAt("commits", j) :
                     /\ ~Failed(i)
                     /\ ~requests[i].resp.isLastPage
                     /\ requests[j].start = requests[i].resp.nextPageStart
    /\ \A i, j \in 1..Len(requests) :
          (IsKind(i, "commits") /\ IsKind(j, "commits") /\ i # j
                /\ SameKey(requests[i], requests[j]))
              => requests[i].start # requests[j].start
    /\ (pc = "walk" \/ (pc = "status" /\ caller = "search")) =>
          /\ commits = FetchedCommits(Here, Len(requests))
          /\ \E i \in ReqsAt(Here, "commits") : requests[i].resp.isLastPage
    /\ \A n \in 1..Len(checks) : IsSearch(n) =>
          checks[n].commits = FetchedCommits(checks[n], Len(requests))

(* Two pages of commits, the second page holding the commit with the       *)
(* smaller id: the list walked is page one followed by page two.           *)
C18_Witness ==
    /\ pc = "walk"
    /\ cidx = 1
    /\ Cardinality(ReqsAt(Here, "commits")) = 2
    /\ commits = <<[ID |-> "c2"], [ID |-> "c2"], [ID |-> "c1"]>>

(* C19: every entry of the result carries the id and the branch display    *)
(* name of the listed pull request it was made for; its headSHA is the     *)
(* head commit of that pull request or the id of a commit of its fetched   *)
(* commit list, and it is not the head commit only when                    *)
(* findLatestSuccessful is set and the head commit was not green.          *)
InFetched(o, sha) ==
    \E q \in 1..Len(FetchedCommits(o, Len(requests))) :
        FetchedCommits(o, Len(requests))[q].ID = sha

C19_EntryFields ==
    /\ Len(pullRequests) = Len(AcceptedOutcomes)
    /\ \A k \in 1..Len(pullRequests) :
          LET o == AcceptedOutcomes[k]
              e == pullRequests[k]
          IN  /\ ServedAt(o) # {}
              /\ \A p \in ServedAt(o) :
                    /\ e.Number = p.ID
                    /\ e.Branch = p.FromRef.DisplayID
                    /\ e.HeadSHA = p.FromRef.LatestCommit \/ InFetched(o, e.HeadSHA)
                    /\ (e.HeadSHA # p.FromRef.LatestCommit \/ o.kind = "found") =>
                          /\ svc.findLatestSuccessful
                          /\ ~svc.successfulBuilds.nil
                          /\ InFetched(o, e.HeadSHA)
                          /\ \E n \in HeadChecksAt(o) : ~checks[n].green
    /\ Returned => ret.v = pullRequests

(* A returned entry whose headSHA is not the head commit of its pull        *)
(* request but the second commit of the fetched list.                      *)
C19_Witness ==
    /\ Returned
    /\ Len(ret.v) = 1
    /\ Len(outcomes) = 1
    /\ ret.v[1].Number = outcomes[1].pull.ID
    /\ ret.v[1].HeadSHA # outcomes[1].pull.FromRef.LatestCommit
    /\ Len(FetchedCommits(outcomes[1], Len(requests))) = 2
    /\ FetchedCommits(outcomes[1], Len(requests))[2].ID = ret.v[1].HeadSHA

(* C20: termination.  The server is static and List is sequential, so what *)
(* List does after a request is decided by the iteration it stands in and  *)
(* by the response: a call returns if and only if no iteration issues a    *)
(* request it has issued before with the same response, for then the same  *)
(* request follows again, without end.  Stated on finite runs: within one  *)
(* loop the start cursor of a request differs from that of every earlier   *)
(* request of the loop, so that each loop ends with the last of the        *)
(* finitely many pages.                                                    *)
SameLoop(a, b) ==
    /\ a.kind = b.kind
    /\ a.commit = b.commit
    /\ a.pull = b.pull
    /\ SameKey(a, b)
    /\ a.loop = b.loop

C20_Terminates ==
    \A i, j \in 1..Len(requests) :
        (i < j /\ SameLoop(requests[i], requests[j]) /\ ~Failed(i) /\ ~Failed(j))
            => requests[i].start # requests[j].start

(* The checks made for the pull request at a position *)
ChecksOf(o) == {n \in 1..Len(checks) : SameKey(checks[n], o)}

(* Under a build policy every entry of the result carries a headSHA whose  *)
(* green check, made for its pull request during the call, returned true   *)
HeadSHAChecked ==
    ~svc.successfulBuilds.nil =>
        /\ Len(pullRequests) = Len(AcceptedOutcomes)
        /\ \A k \in 1..Len(pullRequests) :
              \E n \in ChecksOf(AcceptedOutcomes[k]) :
                  /\ checks[n].green
                  /\ checks[n].commit = pullRequests[k].HeadSHA
        /\ Returned => ret.v = pullRequests

(* The commit list fetched for the position lists each commit once, as    *)
(* the commit list of a pull request does                                  *)
ListsCommitsOnce(o) ==
    LET cs == FetchedCommits(o, Len(requests)) IN
    \A i, j \in 1..Len(cs) : i # j => cs[i].ID # cs[j].ID

(* C21: under a build policy every entry of the result carries a headSHA   *)
(* whose green check, made for its pull request during the call, returned  *)
(* true; and no check made for that pull request during the call returned  *)
(* false for the commit the entry carries (stated for commit lists that    *)
(* list each commit once).                                                 *)
C21_HeadSHAGreen ==
    /\ HeadSHAChecked
    /\ ~svc.successfulBuilds.nil =>
          \A k \in 1..Len(pullRequests) :
              ListsCommitsOnce(AcceptedOutcomes[k]) =>
                  \A n \in ChecksOf(AcceptedOutcomes[k]) :
                      ~checks[n].green => checks[n].commit # pullRequests[k].HeadSHA

====
